---- MODULE Spec2Model ----
(***************************************************************************)
(* Model of the schedule backend of src/app.py: one table `schedule`       *)
(* behind six HTTP routes.  The table is a sequence of rows in rowid       *)
(* order; every request runs in a session of its own (the scoped session   *)
(* is removed when the request's context is torn down).                    *)
(*                                                                         *)
(* Spec      : requests handled one at a time, one action per handler.     *)
(* ConcSpec  : two PUT requests whose fetch / assign / commit / reload     *)
(*             steps interleave; the store serialises each statement.      *)
(***************************************************************************)
EXTENDS Integers, Sequences, FiniteSets, TLC

\* store   : the rows of table `schedule`, in rowid order
\* req     : the request being answered ("none" between requests)
\* resp    : the response produced for req
\* session : the request's session as it is when the response is produced
\* pre     : the rows as they were when req arrived
\* workers : the two concurrent PUT requests of ConcSpec
VARIABLES store, req, resp, session, pre, workers

vars == <<store, req, resp, session, pre, workers>>

\* ------------------------------------------------------------------ bounds
MaxRecords == 2

\* ------------------------------------------------------------ JSON values
\* JSON null / Python None
Null == "null"
\* marker of a key that the JSON object does not have
Absent == "absent"
JTrue == "true"
JFalse == "false"

Dates == {"2024-01-01", "2024-01-02"}
Users == {"alice", "bob"}
Times == {"09:00"}
Texts == {"ok"}

\* dict.get(key, default)
Get(data, key, default) == IF data[key] = Absent THEN default ELSE data[key]

\* `key in data`
Has(data, key) == data[key] # Absent

NoData ==
    [id |-> Absent, date |-> Absent, user |-> Absent, checkInTime |-> Absent,
     exercised |-> Absent, reflection |-> Absent]

\* bodies sent to POST /api/schedules: date and user each missing, null or
\* given; the optional keys missing or given, exercised and reflection also null
PostBodies ==
    [id : {Absent}, date : Dates \cup {Absent, Null}, user : Users \cup {Absent, Null},
     checkInTime : Times \cup {Absent}, exercised : {Absent, Null, JTrue},
     reflection : Texts \cup {Absent, Null}]

\* a PUT body with the given values and no id, date or user key
Body(checkInTime, exercised, reflection) ==
    [id |-> Absent, date |-> Absent, user |-> Absent, checkInTime |-> checkInTime,
     exercised |-> exercised, reflection |-> reflection]

\* bodies sent to PUT /api/schedules/<id>: every subset of the three updatable
\* keys, a null checkInTime, a false exercised, and bodies that also carry id,
\* date and user keys
PutBodies ==
    [id : {Absent}, date : {Absent}, user : {Absent},
     checkInTime : Times \cup {Absent}, exercised : {Absent, JTrue},
     reflection : Texts \cup {Absent}]
    \cup
    {Body(Null, Absent, Absent), Body(Absent, JFalse, Absent)}
    \cup
    {[id |-> "7", date |-> "2024-01-02", user |-> "bob", checkInTime |-> Absent,
      exercised |-> e, reflection |-> Absent] : e \in {Absent, JTrue}}

Ids == 1 .. (MaxRecords + 1)

\* ------------------------------------------------------------- the table
\* class Schedule: the mapped attributes of one object
Schedule(id, date, user, checkInTime, exercised, reflection) ==
    [id |-> id, date |-> date, user |-> user, checkInTime |-> checkInTime,
     exercised |-> exercised, reflection |-> reflection]

to_dict(s) ==
    [id |-> s.id, date |-> s.date, user |-> s.user, checkInTime |-> s.checkInTime,
     exercised |-> s.exercised, reflection |-> s.reflection]

RowIds(rows) == {rows[i].id : i \in 1 .. Len(rows)}

\* NextId without the increment: the largest rowid is handed out again
NextIdReuse(rows) ==
    IF rows = <<>> THEN 1
    ELSE CHOOSE m \in RowIds(rows) : \A n \in RowIds(rows) : n <= m

\* INTEGER PRIMARY KEY: the new rowid is one more than the largest in the table
NextId(rows) ==
    IF rows = <<>> THEN 1
    ELSE (CHOOSE m \in RowIds(rows) : \A n \in RowIds(rows) : n <= m) + 1

\* NotNullOk without the NOT NULL constraints
NotNullOff(s) == TRUE

\* nullable=False on date and user
NotNullOk(s) == s.date # Null /\ s.user # Null

\* default=False on exercised: a None attribute is left out of the INSERT
WithDefaults(s) == [s EXCEPT !.exercised = IF @ = Null THEN JFalse ELSE @]

\* Query.all(): every row, in rowid order
QueryAll(rows) == rows

\* FirstMatch filtering on the user alone
RECURSIVE FirstMatchUser(_, _, _)
FirstMatchUser(rows, user, date) ==
    IF rows = <<>> THEN <<>>
    ELSE IF Head(rows).user = user THEN <<Head(rows)>>
    ELSE FirstMatchUser(Tail(rows), user, date)

\* Query.filter_by(user=..., date=...).first()
RECURSIVE FirstMatch(_, _, _)
FirstMatch(rows, user, date) ==
    IF rows = <<>> THEN <<>>
    ELSE IF Head(rows).user = user /\ Head(rows).date = date THEN <<Head(rows)>>
    ELSE FirstMatch(Tail(rows), user, date)

\* FilterByUser without its filter
FilterByUserAll(rows, user) == rows

\* Query.filter_by(user=...).all()
FilterByUser(rows, user) == SelectSeq(rows, LAMBDA s : s.user = user)

\* Query.get(id): the row with that primary key, or nothing
QueryGet(rows, id) == SelectSeq(rows, LAMBDA s : s.id = id)

\* ------------------------------------------------------------ the session
\* txn: none | active | committed | rolledback;  new: pending objects;
\* dirty: attributes of a loaded object changed and not yet flushed
NewSession == [txn |-> "none", new |-> <<>>, dirty |-> {}]

Begun(s) == [s EXCEPT !.txn = "active"]

Columns == {"checkInTime", "exercised", "reflection"}

\* attributes whose value differs from the loaded one: the SET list of the UPDATE
Changed(loaded, obj) == {c \in Columns : obj[c] # loaded[c]}

\* UpdateRows with the write left out
UpdateRowsNone(rows, loaded, obj) == rows

\* UPDATE schedule SET <changed> WHERE id = obj.id
UpdateRows(rows, loaded, obj) ==
    [i \in 1 .. Len(rows) |->
        IF rows[i].id = obj.id
        THEN [c \in DOMAIN rows[i] |->
                IF c \in Changed(loaded, obj) THEN obj[c] ELSE rows[i][c]]
        ELSE rows[i]]

\* db.session.add(obj); db.session.commit() for a new object.  A failed flush
\* rolls the transaction back and expunges the pending object.
CommitInsert(rows, obj) ==
    IF NotNullOk(obj)
    THEN [ok |-> TRUE,
          rows |-> Append(rows, WithDefaults([obj EXCEPT !.id = NextId(rows)])),
          session |-> [txn |-> "committed", new |-> <<>>, dirty |-> {}]]
    ELSE [ok |-> FALSE, rows |-> rows,
          session |-> [txn |-> "rolledback", new |-> <<>>, dirty |-> {}]]

\* errorhandler(500): db.session.rollback().  Flask calls it for an exception
\* that leaves a view function; every API route catches its own exceptions and
\* returns the 500 itself, so no handler below goes through it.
internal_error(s) == [s EXCEPT !.txn = "rolledback", !.new = <<>>, !.dirty = {}]

\* ------------------------------------------------------------- responses
NoRecord == Schedule(0, Null, Null, Null, Null, Null)

Response(status, kind, record, list, text) ==
    [status |-> status, kind |-> kind, record |-> record, list |-> list, text |-> text]

JsonRecord(status, s) == Response(status, "record", to_dict(s), <<>>, "")
JsonList(rows) ==
    Response(200, "list", NoRecord, [i \in 1 .. Len(rows) |-> to_dict(rows[i])], "")
JsonError(text) == Response(500, "error", NoRecord, <<>>, text)
JsonMessage(status, text) == Response(status, "message", NoRecord, <<>>, text)
Plain(kind) == Response(200, kind, NoRecord, <<>>, "")

Request(route, id, user, date, data) ==
    [route |-> route, id |-> id, user |-> user, date |-> date, data |-> data]

NoRequest == Request("none", 0, "", "", NoData)
NoResponse == Plain("none")

Workers == {1, 2}

\* one in-flight PUT: pc is idle | start | fetched | assigned | committed | done,
\* loaded the row as the SELECT returned it, obj the object after the assignments
Worker(pc, id, data, loaded, obj, r) ==
    [pc |-> pc, id |-> id, data |-> data, loaded |-> loaded, obj |-> obj, resp |-> r]

NoWorkers == [w \in Workers |-> Worker("idle", 0, NoData, NoRecord, NoRecord, NoResponse)]

Init ==
    /\ store = <<>>
    /\ req = NoRequest
    /\ resp = NoResponse
    /\ session = NewSession
    /\ pre = <<>>
    /\ workers = NoWorkers

\* a request arrives when no other is being answered; pre keeps the rows it finds
Arrives(r) ==
    /\ req = NoRequest
    /\ req' = r
    /\ pre' = store

\* -------------------------------------------------------------- handlers
\* GET /api/schedules
get_schedules ==
    /\ Arrives(Request("get_schedules", 0, "", "", NoData))
    /\ resp' = JsonList(QueryAll(store))
    /\ session' = Begun(NewSession)
    /\ UNCHANGED <<store, workers>>

\* AddOutcome with date and user handed to each other's column
AddOutcomeSwapped(rows, data) ==
    IF ~Has(data, "date") \/ ~Has(data, "user")
    THEN [resp |-> JsonError("KeyError"), rows |-> rows, session |-> NewSession]
    ELSE LET new_schedule ==
                 Schedule(Null, data["user"], data["date"],
                          Get(data, "checkInTime", Null),
                          Get(data, "exercised", JFalse),
                          Get(data, "reflection", Null))
             c == CommitInsert(rows, new_schedule)
         IN  IF c.ok
             THEN [resp |-> JsonRecord(201, c.rows[Len(c.rows)]), rows |-> c.rows,
                   session |-> c.session]
             ELSE [resp |-> JsonError("IntegrityError"), rows |-> c.rows,
                   session |-> c.session]

\* the outcome of POST /api/schedules on a table: response, table, session
AddOutcome(rows, data) ==
    IF ~Has(data, "date") \/ ~Has(data, "user")
    THEN [resp |-> JsonError("KeyError"), rows |-> rows, session |-> NewSession]
    ELSE LET new_schedule ==
                 Schedule(Null, data["date"], data["user"],
                          Get(data, "checkInTime", Null),
                          Get(data, "exercised", JFalse),
                          Get(data, "reflection", Null))
             c == CommitInsert(rows, new_schedule)
         IN  IF c.ok
             THEN [resp |-> JsonRecord(201, c.rows[Len(c.rows)]), rows |-> c.rows,
                   session |-> c.session]
             ELSE [resp |-> JsonError("IntegrityError"), rows |-> c.rows,
                   session |-> c.session]

\* POST /api/schedules
add_schedule(data) ==
    /\ Len(store) < MaxRecords
    /\ Arrives(Request("add_schedule", 0, "", "", data))
    /\ resp' = AddOutcome(store, data).resp
    /\ store' = AddOutcome(store, data).rows
    /\ session' = AddOutcome(store, data).session
    /\ UNCHANGED workers

\* Assign with data.get('checkInTime') in place of data.get('checkInTime', old)
AssignReset(schedule, data) ==
    [schedule EXCEPT
        !.checkInTime = Get(data, "checkInTime", Null),
        !.exercised = Get(data, "exercised", schedule.exercised),
        !.reflection = Get(data, "reflection", schedule.reflection)]

\* lines 88-90: the three assignments on the loaded object
Assign(schedule, data) ==
    [schedule EXCEPT
        !.checkInTime = Get(data, "checkInTime", schedule.checkInTime),
        !.exercised = Get(data, "exercised", schedule.exercised),
        !.reflection = Get(data, "reflection", schedule.reflection)]

\* UpdateOutcome with the 404 of get_or_404 passed on to the client
UpdateOutcome404(rows, id, data) ==
    LET found == QueryGet(rows, id)
    IN  IF found = <<>>
        THEN [resp |-> JsonMessage(404, "404 Not Found"), rows |-> rows,
              session |-> Begun(NewSession)]
        ELSE LET schedule == Assign(found[1], data)
                 rows2 == UpdateRows(rows, found[1], schedule)
             IN  [resp |-> JsonRecord(200, QueryGet(rows2, id)[1]), rows |-> rows2,
                  session |-> [txn |-> "committed", new |-> <<>>, dirty |-> {}]]

\* UpdateOutcome that creates the row when the id is not there
UpdateOutcomeUpsert(rows, id, data) ==
    LET found == QueryGet(rows, id)
        row == IF found = <<>> THEN Schedule(id, "2024-01-01", "alice", Null, JFalse, Null)
               ELSE found[1]
        rows1 == IF found = <<>> THEN Append(rows, row) ELSE rows
        rows2 == UpdateRows(rows1, row, Assign(row, data))
    IN  [resp |-> JsonRecord(200, QueryGet(rows2, id)[1]), rows |-> rows2,
         session |-> [txn |-> "committed", new |-> <<>>, dirty |-> {}]]

\* the outcome of PUT /api/schedules/<id> handled without interleaving
UpdateOutcome(rows, id, data) ==
    LET found == QueryGet(rows, id)
    IN  IF found = <<>>
        THEN [resp |-> JsonError("404 Not Found"), rows |-> rows,
              session |-> Begun(NewSession)]
        ELSE LET schedule == Assign(found[1], data)
                 rows2 == UpdateRows(rows, found[1], schedule)
             IN  [resp |-> JsonRecord(200, QueryGet(rows2, id)[1]), rows |-> rows2,
                  session |-> [txn |-> "committed", new |-> <<>>, dirty |-> {}]]

\* PUT /api/schedules/<id>
update_schedule(id, data) ==
    /\ Arrives(Request("update_schedule", id, "", "", data))
    /\ resp' = UpdateOutcome(store, id, data).resp
    /\ store' = UpdateOutcome(store, id, data).rows
    /\ session' = UpdateOutcome(store, id, data).session
    /\ UNCHANGED workers

\* GET /api/schedules/<user>/<date>
get_schedule(user, date) ==
    /\ Arrives(Request("get_schedule", 0, user, date, NoData))
    /\ resp' = LET schedule == FirstMatch(store, user, date)
               IN  IF schedule # <<>> THEN JsonRecord(200, schedule[1])
                   ELSE JsonMessage(404, "Schedule not found")
    /\ session' = Begun(NewSession)
    /\ UNCHANGED <<store, workers>>

\* GET /api/schedules/<user>
get_user_schedules(user) ==
    /\ Arrives(Request("get_user_schedules", 0, user, "", NoData))
    /\ resp' = JsonList(FilterByUser(store, user))
    /\ session' = Begun(NewSession)
    /\ UNCHANGED <<store, workers>>

\* GET / and GET /<path>: a static file or index.html
serve ==
    /\ Arrives(Request("serve", 0, "", "", NoData))
    /\ resp' = Plain("static")
    /\ session' = NewSession
    /\ UNCHANGED <<store, workers>>

\* GET /test_db
test_db ==
    /\ Arrives(Request("test_db", 0, "", "", NoData))
    /\ resp' = Plain("text")
    /\ session' = Begun(NewSession)
    /\ UNCHANGED <<store, workers>>

\* GET /api/download_db: the database file as it is on disk
download_db ==
    /\ Arrives(Request("download_db", 0, "", "", NoData))
    /\ resp' = Response(200, "file", NoRecord, store, "")
    /\ session' = NewSession
    /\ UNCHANGED <<store, workers>>

\* the response is sent and the request's context torn down: the scoped session
\* is removed, which closes it and ends whatever transaction it still holds
teardown ==
    /\ req # NoRequest
    /\ req' = NoRequest
    /\ resp' = NoResponse
    /\ session' = NewSession
    /\ pre' = store
    /\ UNCHANGED <<store, workers>>

Next ==
    \/ get_schedules
    \/ \E data \in PostBodies : add_schedule(data)
    \/ \E id \in Ids, data \in PutBodies : update_schedule(id, data)
    \/ \E user \in Users, date \in Dates : get_schedule(user, date)
    \/ \E user \in Users : get_user_schedules(user)
    \/ serve
    \/ test_db
    \/ download_db
    \/ teardown

Spec == Init /\ [][Next]_vars

\* ------------------------------------------- two PUT requests in parallel
\* tables the concurrent requests find: the one-row tables a POST for alice
\* leaves behind it
ConcStores ==
    {AddOutcome(<<>>, data).rows :
        data \in {d \in PostBodies : d.user = "alice" /\ d.date = "2024-01-01"}}

ConcIds == {1, 2}

ConcInit ==
    /\ store \in ConcStores
    /\ pre = store
    /\ req = NoRequest
    /\ resp = NoResponse
    /\ session = NewSession
    /\ workers \in
         [Workers -> {Worker("start", id, data, NoRecord, NoRecord, NoResponse) :
                        id \in ConcIds, data \in PutBodies}]

Seq_ == <<req, resp, session, pre>>

\* line 86: Schedule.query.get_or_404(id), a SELECT in the worker's own session
put_fetch(w) ==
    /\ workers[w].pc = "start"
    /\ LET found == QueryGet(store, workers[w].id)
       IN  workers' =
             [workers EXCEPT ![w] =
                IF found = <<>>
                THEN [@ EXCEPT !.pc = "done", !.resp = JsonError("404 Not Found")]
                ELSE [@ EXCEPT !.pc = "fetched", !.loaded = found[1], !.obj = found[1]]]
    /\ UNCHANGED <<store, Seq_>>

\* lines 87-90: the assignments, on the object in the worker's session
put_assign(w) ==
    /\ workers[w].pc = "fetched"
    /\ workers' = [workers EXCEPT ![w] =
                     [@ EXCEPT !.pc = "assigned", !.obj = Assign(@, workers[w].data)]]
    /\ UNCHANGED <<store, Seq_>>

\* line 91: db.session.commit(): the UPDATE of the changed columns and the
\* COMMIT, which the database runs as one write
put_commit(w) ==
    /\ workers[w].pc = "assigned"
    /\ store' = UpdateRows(store, workers[w].loaded, workers[w].obj)
    /\ workers' = [workers EXCEPT ![w] = [@ EXCEPT !.pc = "committed"]]
    /\ UNCHANGED Seq_

\* line 92: to_dict() on the object the commit expired: a SELECT of the row
put_respond(w) ==
    /\ workers[w].pc = "committed"
    /\ workers' =
         [workers EXCEPT ![w] =
            [@ EXCEPT !.pc = "done",
                      !.resp = JsonRecord(200, QueryGet(store, workers[w].id)[1])]]
    /\ UNCHANGED <<store, Seq_>>

ConcNext ==
    \E w \in Workers :
        \/ put_fetch(w)
        \/ put_assign(w)
        \/ put_commit(w)
        \/ put_respond(w)

ConcSpec == ConcInit /\ [][ConcNext]_vars

\* every request is served by a thread that runs its handler to the end
ConcFairSpec == ConcSpec /\ \A w \in Workers : WF_vars(put_fetch(w) \/ put_assign(w) \/ put_commit(w) \/ put_respond(w))

\* ------------------------------------------------------------------ claims
Given(data, key) == Has(data, key) /\ data[key] # Null

\* what a key of a POST body stores: its value, or null when the key is missing
Supplied(data, key) == IF Has(data, key) THEN data[key] ELSE Null

\* the row of rows whose id is id (ids are unique, see C2)
RowOf(rows, id) == rows[CHOOSE i \in 1 .. Len(rows) : rows[i].id = id]

\* the rows of rows, each as the JSON object the routes return for it
AsJson(rows) ==
    [i \in 1 .. Len(rows) |->
        [id |-> rows[i].id, date |-> rows[i].date, user |-> rows[i].user,
         checkInTime |-> rows[i].checkInTime, exercised |-> rows[i].exercised,
         reflection |-> rows[i].reflection]]

\* C1: a POST whose body gives date and user answers 201 with the created
\* record; the table is then the previous rows plus one row holding the given
\* date, user, checkInTime and reflection (null when the key is missing) and
\* exercised false when that key is missing; GET /api/schedules answers 200
\* with exactly the rows of the table.
C1_InsertThenList ==
    /\ (req.route = "add_schedule" /\ Given(req.data, "date") /\ Given(req.data, "user"))
         => /\ resp.status = 201
            /\ resp.kind = "record"
            /\ Len(store) = Len(pre) + 1
            /\ SubSeq(store, 1, Len(pre)) = pre
            /\ LET r == store[Len(store)]
               IN  /\ r.date = req.data.date
                   /\ r.user = req.data.user
                   /\ r.checkInTime = Supplied(req.data, "checkInTime")
                   /\ r.reflection = Supplied(req.data, "reflection")
                   /\ (~Has(req.data, "exercised") => r.exercised = JFalse)
                   /\ resp.record = AsJson(store)[Len(store)]
    /\ req.route = "get_schedules"
         => /\ resp.status = 200
            /\ resp.kind = "list"
            /\ resp.list = AsJson(store)

C1_Witness ==
    /\ req.route = "add_schedule"
    /\ resp.status = 201
    /\ Len(pre) = 1
    /\ ~Has(req.data, "checkInTime")
    /\ ~Has(req.data, "exercised")
    /\ req.data.reflection = "ok"

\* C2: no two rows share an id, the id of a created row is the id of no row
\* that was there before, and the id of a row never changes.
C2_UniqueStableIds ==
    /\ \A i, j \in 1 .. Len(store) : i # j => store[i].id # store[j].id
    /\ Len(pre) <= Len(store)
    /\ \A i \in 1 .. Len(pre) : store[i].id = pre[i].id
    /\ \A i \in (Len(pre) + 1) .. Len(store) : store[i].id \notin RowIds(pre)

C2_Witness ==
    /\ req.route = "add_schedule"
    /\ resp.status = 201
    /\ Len(store) = 2
    /\ store[1].id # store[2].id

\* C3: a POST whose body has no date or no user (key missing or null) answers
\* 500 with an error body and leaves the table as it was, with nothing pending.
C3_MissingRequiredField ==
    (req.route = "add_schedule" /\ (~Given(req.data, "date") \/ ~Given(req.data, "user")))
        => /\ resp.status = 500
           /\ resp.kind = "error"
           /\ store = pre
           /\ session.new = <<>>

C3_Witness ==
    /\ req.route = "add_schedule"
    /\ req.data.date = Null
    /\ Given(req.data, "user")
    /\ resp.status = 500
    /\ Len(pre) = 1

\* C4: a PUT answered 200 sets, of checkInTime, exercised and reflection, the
\* keys present in the body to the given values and keeps the others; id, date
\* and user of the row stay, whatever the body holds, and so does every other row.
C4_UpdateFrame ==
    (req.route = "update_schedule" /\ resp.status = 200)
        => /\ Len(store) = Len(pre)
           /\ \A i \in 1 .. Len(pre) :
                IF pre[i].id = req.id
                THEN /\ \A c \in {"checkInTime", "exercised", "reflection"} :
                          store[i][c] = IF Has(req.data, c) THEN req.data[c] ELSE pre[i][c]
                     /\ store[i].id = pre[i].id
                     /\ store[i].date = pre[i].date
                     /\ store[i].user = pre[i].user
                ELSE store[i] = pre[i]

C4_Witness ==
    /\ req.route = "update_schedule"
    /\ resp.status = 200
    /\ Len(pre) = 2
    /\ req.id = 2
    /\ Has(req.data, "date")
    /\ req.data.exercised = JTrue
    /\ ~Has(req.data, "checkInTime")
    /\ pre[2].checkInTime = "09:00"
    /\ pre[2].exercised = JFalse
    /\ pre[2].date = "2024-01-01"

\* C5: a PUT for an id that no row has answers 500 with an error body, adds no
\* row and changes none.
C5_UpdateMissingId ==
    (req.route = "update_schedule" /\ req.id \notin RowIds(pre))
        => /\ resp.status = 500
           /\ resp.kind = "error"
           /\ store = pre

C5_Witness ==
    /\ req.route = "update_schedule"
    /\ req.id \notin RowIds(pre)
    /\ Len(pre) = 2
    /\ Has(req.data, "reflection")
    /\ resp.status = 500

\* the positions of the rows with that user and date
Matches(rows, user, date) ==
    {i \in 1 .. Len(rows) : rows[i].user = user /\ rows[i].date = date}

\* C6: GET /api/schedules/<user>/<date> answers 200 with the first row whose
\* user and date are the path values if there is one, and otherwise 404 with
\* the message "Schedule not found".
C6_FindOne ==
    req.route = "get_schedule"
        => LET M == Matches(store, req.user, req.date)
           IN  IF M # {}
               THEN /\ resp.status = 200
                    /\ resp.kind = "record"
                    /\ resp.record = AsJson(store)[CHOOSE i \in M : \A j \in M : i <= j]
               ELSE /\ resp.status = 404
                    /\ resp.kind = "message"
                    /\ resp.text = "Schedule not found"

C6_Witness ==
    /\ req.route = "get_schedule"
    /\ resp.status = 200
    /\ Cardinality(Matches(store, req.user, req.date)) = 2
    /\ store[1].reflection # store[2].reflection

C6_WitnessAbsent ==
    /\ req.route = "get_schedule"
    /\ resp.status = 404
    /\ Len(store) = 2
    /\ store[1].user = req.user
    /\ store[2].date = req.date

\* C7: GET /api/schedules/<user> answers 200 with the rows of that user, of
\* any date, each once, and with no other row.
C7_FindAllByUser ==
    req.route = "get_user_schedules"
        => /\ resp.status = 200
           /\ resp.kind = "list"
           /\ \A i \in 1 .. Len(store) :
                Cardinality({j \in 1 .. Len(resp.list) : resp.list[j] = AsJson(store)[i]})
                    = IF store[i].user = req.user THEN 1 ELSE 0
           /\ \A j \in 1 .. Len(resp.list) :
                \E i \in 1 .. Len(store) : resp.list[j] = AsJson(store)[i]

C7_Witness ==
    /\ req.route = "get_user_schedules"
    /\ Len(store) = 2
    /\ Len(resp.list) = 1
    /\ store[1].user # store[2].user
    /\ store[1].date = store[2].date

C7_WitnessDates ==
    /\ req.route = "get_user_schedules"
    /\ Len(resp.list) = 2
    /\ store[1].date # store[2].date

WriteRoutes == {"add_schedule", "update_schedule"}

\* C8: when a POST or PUT answers 500, the transaction of the request has been
\* rolled back (or none was begun), nothing is pending in its session and the
\* table is as the request found it.
C8_RollbackBeforeError ==
    (req.route \in WriteRoutes /\ resp.status = 500)
        => /\ session.txn \in {"none", "rolledback"}
           /\ session.new = <<>>
           /\ session.dirty = {}
           /\ store = pre

ReadRoutes ==
    {"get_schedules", "get_schedule", "get_user_schedules", "serve", "test_db",
     "download_db"}

\* C9: in every step the ids in the table stay; they grow only in a POST that
\* answers 201, and no GET route and no PUT changes them.
C9_Step ==
    /\ RowIds(store) \subseteq RowIds(store')
    /\ RowIds(store') # RowIds(store)
         => (req'.route = "add_schedule" /\ resp'.status = 201)
    /\ req'.route \in ReadRoutes \cup {"update_schedule"}
         => RowIds(store') = RowIds(store)

C9_NeverDeleted == [][C9_Step]_vars

C9_Witness ==
    /\ req.route = "update_schedule"
    /\ resp.status = 200
    /\ Len(store) = 2
    /\ store # pre

AllDone == \A w \in Workers : workers[w].pc = "done"

SameExistingId == workers[1].id = workers[2].id /\ workers[1].id \in RowIds(pre)

\* C10: two PUTs for the same existing id whose steps interleave both answer
\* 200; every key both bodies give ends with the value of one of them, no row
\* is added or removed, and id, date and user of the row stay.
C10_Outcome ==
    (AllDone /\ SameExistingId)
        => /\ \A w \in Workers : workers[w].resp.status = 200
           /\ Len(store) = Len(pre)
           /\ LET id == workers[1].id
              IN  /\ \A c \in {"checkInTime", "exercised", "reflection"} :
                        (Has(workers[1].data, c) /\ Has(workers[2].data, c))
                            => RowOf(store, id)[c] \in {workers[1].data[c], workers[2].data[c]}
                  /\ RowOf(store, id).id = RowOf(pre, id).id
                  /\ RowOf(store, id).date = RowOf(pre, id).date
                  /\ RowOf(store, id).user = RowOf(pre, id).user

C10_LastWriteWins == []C10_Outcome /\ <>AllDone

\* both requests fetched the row before either committed, and they disagree
C10_Witness ==
    /\ AllDone
    /\ SameExistingId
    /\ workers[1].loaded = pre[1]
    /\ workers[2].loaded = pre[1]
    /\ workers[1].data.exercised = JTrue
    /\ workers[2].data.exercised = JFalse
    /\ Has(workers[1].data, "date")
    /\ store[1].exercised = JFalse

====
